---- MODULE Spec2Model ----
(***************************************************************************)
(* A model of pedis-core (src/src/lib.rs): the RESP frame decoder          *)
(* RedisCommand (params, name), the typed store RedisStore (set, get) and  *)
(* the store shared through AsyncLockedStore, one reader/writer lock.      *)
(*                                                                         *)
(* A Rust String is a sequence of one-character strings; "\r" and "\n"     *)
(* are two separate characters, so the delimiter "\r\n" is a two-character *)
(* pattern that split has to find.                                         *)
(***************************************************************************)
EXTENDS Naturals, Sequences, FiniteSets, TLC

VARIABLES
    cmd,        \* RedisCommand.cmd: the frame the command was built from
    argv,       \* the payload list the client encoded into cmd, if it did
    called,     \* the method of RedisCommand called last
    ret,        \* what that call gave: a value, or a panic
    store,      \* RedisStore.store: the HashMap<String, Value>
    last,       \* the last call made on the store, with its result
    written,    \* per key: the values the set calls on it wrote, the last two kept
    lock,       \* the RwLock of AsyncLockedStore: its readers and its writer
    pc,         \* per thread: where it stands in its get or set call
    tret,       \* per thread: the call it makes under the lock, with its result
    committed,  \* per key: the value of the last set call that has returned
    terr,       \* Teststore.err
    tlast,      \* the last call made on the Teststore, with its result
    error,      \* a StoreError about to be rendered for the client
    shown,      \* what Display wrote for error, once it has
    cmd2,       \* a second RedisCommand.cmd, decoded beside cmd
    ret2        \* what the call on the second command gave

vars == <<cmd, argv, called, ret, store, last, written, lock, pc, tret, committed,
          terr, tlast, error, shown, cmd2, ret2>>

decoderVars == <<cmd, argv, called, ret>>
storeVars == <<store, last, written>>
lockVars == <<lock, pc, tret, committed>>
mockVars == <<terr, tlast>>
displayVars == <<error, shown>>
pairVars == <<cmd2, ret2>>
sideVars == <<mockVars, displayVars, pairVars>>

-----------------------------------------------------------------------------
(* Bounds of the model *)

\* the most arguments of a generated well-formed frame
MaxArgs == 2
\* the longest payload of a generated well-formed frame
MaxPayload == 2
\* the longest frame generated character by character
MaxRaw == 4
\* the threads that share the locked store
NumThreads == 2
\* the most words of a generated KeyMismatchError message
MaxWords == 4
\* the most arguments of a frame generated with arbitrary header texts
MaxHeaderArgs == 2
\* the most arguments of a frame generated with "\r\n" inside its payloads
MaxEmbedArgs == 3

-----------------------------------------------------------------------------
(* Characters and strings *)

CR == "\r"
LF == "\n"

\* the characters of generated payloads and raw frames
Alphabet == {"S", CR, LF}

\* all strings over cs of length at most n
Strings(cs, n) == UNION {[1..m -> cs] : m \in 0..n}

Digits == <<"0", "1", "2", "3", "4", "5", "6", "7", "8", "9">>

RECURSIVE Decimal(_)
\* n in decimal, as the frame's headers write it
Decimal(n) ==
    IF n < 10 THEN <<Digits[n + 1]>>
    ELSE Decimal(n \div 10) \o <<Digits[(n % 10) + 1]>>

RECURSIVE Concat(_)
Concat(ss) ==
    IF ss = <<>> THEN <<>> ELSE Head(ss) \o Concat(Tail(ss))

\* whether s holds the delimiter "\r\n"
HasDelimiter(s) ==
    \E i \in 1..(Len(s) - 1) : s[i] = CR /\ s[i + 1] = LF

\* the frame *N\r\n($len\r\n<payload>\r\n){N} of the payload list ps
Encode(ps) ==
    <<"*">> \o Decimal(Len(ps)) \o <<CR, LF>>
    \o Concat([i \in 1..Len(ps) |->
                 <<"$">> \o Decimal(Len(ps[i])) \o <<CR, LF>> \o ps[i] \o <<CR, LF>>])

\* the frame of the crate's tests and its arguments
TestArgs ==
    << <<"S", "E", "T">>, <<"k", "e", "y">>,
       <<"H", "e", "l", "l", "o", " ", "W", "o", "r", "l", "d">> >>

Payloads == {p \in Strings(Alphabet, MaxPayload) : ~HasDelimiter(p)}

PayloadLists == UNION {[1..n -> Payloads] : n \in 0..MaxArgs} \cup {TestArgs}

RawFrames == Strings(Alphabet, MaxRaw)

\* argv of a frame encoded from the payload list ps, and of any other frame
Encoded(ps) == [wellformed |-> TRUE, payloads |-> ps]
NotEncoded == [wellformed |-> FALSE, payloads |-> <<>>]

-----------------------------------------------------------------------------
(* RedisCommand *)

RECURSIVE Split(_)
\* str::split("\r\n"): the pieces between the matches of the delimiter, found
\* left to right; a string without a match is one piece, the empty one too
Split(s) ==
    IF ~HasDelimiter(s) THEN <<s>>
    ELSE LET i == CHOOSE j \in 1..(Len(s) - 1) :
                    /\ s[j] = CR /\ s[j + 1] = LF
                    /\ \A h \in 1..(j - 1) : ~(s[h] = CR /\ s[h + 1] = LF)
         IN  <<SubSeq(s, 1, i - 1)>> \o Split(SubSeq(s, i + 2, Len(s)))

\* the body of the loop of params: the element at idx (from 0) of elems[1..]
\* is skipped when idx is even and pushed when idx is odd
PushOddFlipped(args, idx, pat) ==
    IF idx % 2 = 1 THEN args ELSE Append(args, pat)

PushOdd(args, idx, pat) ==
    IF idx % 2 = 0 THEN args ELSE Append(args, pat)

RECURSIVE ParamsLoop(_, _, _)
\* for (idx, pat) in rest.iter().enumerate(), from idx on
ParamsLoop(rest, idx, args) ==
    IF idx >= Len(rest) THEN args
    ELSE ParamsLoop(rest, idx + 1, PushOdd(args, idx, rest[idx + 1]))

\* RedisCommand::params: elems[1..] is in bounds, split gives a piece at least
Params(frame) ==
    LET elems == Split(frame)
    IN  ParamsLoop(Tail(elems), 0, <<>>)

LowerTable ==
    [c \in {"S", "E", "T", "H", "W"} |->
        CASE c = "S" -> "s" [] c = "E" -> "e" [] c = "T" -> "t"
          [] c = "H" -> "h" [] c = "W" -> "w"]

\* str::to_lowercase on the model's characters
ToLowercase(s) ==
    [i \in 1..Len(s) |-> IF s[i] \in DOMAIN LowerTable THEN LowerTable[s[i]] ELSE s[i]]

\* Result::Ok(v), Result::Err(e), and a panic that unwinds out of the call
Ok(v) == [tag |-> "Ok", val |-> v]
Err(e) == [tag |-> "Err", val |-> e]
Panic == [tag |-> "Panic", val |-> <<>>]

NameOfLast(frame) ==
    LET args == Params(frame)
    IN  IF Len(args) = 0 THEN Panic ELSE Ok(ToLowercase(args[Len(args)]))

\* the panic of a slice whose start is past the end
SlicePanic == [tag |-> "Panic", val |-> <<"range start index out of range">>]

SliceFrom2(elems) ==
    IF Len(elems) >= 2 THEN Ok(Tail(Tail(elems))) ELSE SlicePanic

\* elems[1..]: in bounds when elems has an element at least
SliceFrom1(elems) ==
    IF Len(elems) >= 1 THEN Ok(Tail(elems)) ELSE SlicePanic

\* a call of RedisCommand::params: the vector it returns, or the panic of
\* its slice
ParamsCall(frame) ==
    LET rest == SliceFrom1(Split(frame))
    IN  IF rest.tag = "Panic" THEN rest ELSE Ok(ParamsLoop(rest.val, 0, <<>>))

\* RedisCommand::name: params()[0] panics on an empty vector
Name(frame) ==
    LET r == ParamsCall(frame)
    IN  IF r.tag = "Panic" THEN r
        ELSE IF Len(r.val) = 0 THEN Panic ELSE Ok(ToLowercase(r.val[1]))

-----------------------------------------------------------------------------
(* Value, ValueKind, StoreError *)

\* enum ValueKind
Kinds == {"String", "Map", "Json", "List"}

\* the keys and the byte vectors the calls are made with
Keys == {"key:001", "key:013"}
DataSamples == {<<104>>, <<112, 101>>}

\* Value::new(data, kind)
NewValue(data, kind) == [kind |-> kind, data |-> data]

Values == {NewValue(d, kd) : d \in DataSamples, kd \in Kinds}

\* the unit value ()
Unit == <<>>

\* enum StoreError
KeyNotFoundError == [err |-> "KeyNotFoundError", msg |-> <<>>]
KeyMismatchError(m) == [err |-> "KeyMismatchError", msg |-> m]

\* impl Display for ValueKind
KindDisplay(kd) ==
    CASE kd = "Map" -> "map"
      [] kd = "Json" -> "json"
      [] kd = "List" -> "list"
      [] kd = "String" -> "string"

\* the literal "key xxx does not match yyy", word by word
MismatchMessage == <<"key", "xxx", "does", "not", "match", "yyy">>

-----------------------------------------------------------------------------
(* RedisStore: a HashMap is a function on the keys it holds *)

\* RedisStore::default()
EmptyStore == [k \in {} |-> Unit]

InsertAlone(map, k, v) ==
    [h \in {k} |-> v]

\* HashMap::insert(k, v): the entry of k is v, the other entries stay
Insert(map, k, v) ==
    [h \in DOMAIN map \cup {k} |-> IF h = k THEN v ELSE map[h]]

SetKeepsExisting(st, k, v) ==
    [store |-> IF k \in DOMAIN st THEN st ELSE Insert(st, k, v), ret |-> Ok(Unit)]

SetMergesData(st, k, v) ==
    [store |-> IF k \in DOMAIN st
                 THEN Insert(st, k, NewValue(v.data, st[k].kind))
                 ELSE Insert(st, k, v),
     ret |-> Ok(Unit)]

SetRefusesOtherKind(st, k, v) ==
    IF k \in DOMAIN st /\ st[k].kind # v.kind
      THEN [store |-> st, ret |-> Err(KeyMismatchError(MismatchMessage))]
      ELSE [store |-> Insert(st, k, v), ret |-> Ok(Unit)]

\* RedisStore::set: the store after the call and the result of the call
StoreSet(st, k, v) ==
    [store |-> Insert(st, k, v), ret |-> Ok(Unit)]

GetWithoutKindCheck(st, k, vk) ==
    IF k \in DOMAIN st THEN Ok(st[k]) ELSE Err(KeyNotFoundError)

GetMismatchWhenAbsent(st, k, vk) ==
    IF k \in DOMAIN st
      THEN IF st[k].kind = vk THEN Ok(st[k])
           ELSE Err(KeyMismatchError(MismatchMessage))
      ELSE Err(KeyMismatchError(MismatchMessage))

\* RedisStore::get: the result of the call; the store is behind &self
StoreGet(st, k, vk) ==
    IF k \in DOMAIN st
      THEN IF st[k].kind = vk THEN Ok(st[k])
           ELSE Err(KeyMismatchError(MismatchMessage))
      ELSE Err(KeyNotFoundError)

\* a call and its result; arg is the value of a set, the kind of a get
Call(op, k, arg, r) == [op |-> op, k |-> k, arg |-> arg, ret |-> r]
NoCall == Call("none", "", "", Ok(Unit))

\* the values written to a key, w, after one more: the last two are kept
Written(w, v) ==
    IF w = <<>> THEN <<v>> ELSE <<w[Len(w)], v>>

-----------------------------------------------------------------------------
(* AsyncLockedStore: Arc<RwLock<&mut (dyn IStore + Send + Sync)>>.  A      *)
(* thread reaches the store through a guard only: get takes &self and runs *)
(* under a read or a write guard, set takes &mut self and so runs under a  *)
(* write guard alone.                                                      *)

Threads == 1..NumThreads

\* RwLock::read is granted while no writer holds the lock
CanRead(l) == l.writer = {}

CanWriteBesideReaders(l) == l.writer = {}

\* RwLock::write is granted while nobody holds the lock
CanWrite(l) ==
    l.writer = {} /\ l.readers = {}

\* the result of a call that has not returned yet
Pending == [tag |-> "Pending", val |-> <<>>]

InitLock ==
    /\ lock = [readers |-> {}, writer |-> {}]
    /\ pc = [t \in Threads |-> "idle"]
    /\ tret = [t \in Threads |-> NoCall]
    /\ committed = EmptyStore

-----------------------------------------------------------------------------
(* The store's specification: set and get calls on one RedisStore *)

InitIdleDecoder ==
    /\ cmd = <<>>
    /\ argv = NotEncoded
    /\ called = "none"
    /\ ret = Ok(<<>>)

InitIdleMock ==
    /\ terr = FALSE
    /\ tlast = NoCall

InitIdleDisplay ==
    /\ error = KeyNotFoundError
    /\ shown = <<>>

InitIdlePair ==
    /\ cmd2 = <<>>
    /\ ret2 = Ok(<<>>)

InitStore ==
    /\ store = EmptyStore
    /\ last = NoCall
    /\ written = [k \in Keys |-> <<>>]

Init ==
    /\ InitStore
    /\ InitIdleDecoder
    /\ InitLock
    /\ InitIdleMock
    /\ InitIdleDisplay
    /\ InitIdlePair

Set(k, v) ==
    /\ store' = StoreSet(store, k, v).store
    /\ last' = Call("set", k, v, StoreSet(store, k, v).ret)
    /\ written' = [written EXCEPT ![k] = Written(@, v)]
    /\ UNCHANGED <<decoderVars, lockVars, sideVars>>

GetTakesValue(k, vk) ==
    /\ last' = Call("get", k, vk, StoreGet(store, k, vk))
    /\ store' = [h \in DOMAIN store \ {k} |-> store[h]]
    /\ UNCHANGED <<written, decoderVars, lockVars, sideVars>>

Get(k, vk) ==
    /\ last' = Call("get", k, vk, StoreGet(store, k, vk))
    /\ UNCHANGED <<store, written, decoderVars, lockVars, sideVars>>

Next ==
    \/ \E k \in Keys, v \in Values : Set(k, v)
    \/ \E k \in Keys, vk \in Kinds : Get(k, vk)

Spec == Init /\ [][Next]_vars

-----------------------------------------------------------------------------
(* Claims about RedisStore, checked under Spec *)

\* the value the last set call on key k wrote; k has been set
LastWritten(k) == written[k][Len(written[k])]

\* C3: in every reachable state, set(k, v) immediately followed by
\* get(k, v.kind) returns Ok with a value of v's kind and v's data.
C3_SetThenGetReturnsValue ==
    [][(/\ last.op = "set"
        /\ last'.op = "get"
        /\ last'.k = last.k
        /\ last'.arg = last.arg.kind)
       => (/\ last'.ret.tag = "Ok"
           /\ last'.ret.val.kind = last.arg.kind
           /\ last'.ret.val.data = last.arg.data)]_vars

\* a get has returned the value a set wrote over another value of the key,
\* in a store that holds the other key too
C3_Witness ==
    /\ last.op = "get"
    /\ Len(written[last.k]) = 2
    /\ written[last.k][1] # written[last.k][2]
    /\ last.ret = Ok(LastWritten(last.k))
    /\ DOMAIN store = Keys

\* C4: when key k holds a value of kind K1, get(k, K2) with K2 # K1 returns
\* Err(KeyMismatchError), and get returns Ok only for the kind that is stored.
C4_KindCheckedOnRead ==
    last.op = "get" =>
        /\ (written[last.k] # <<>> /\ LastWritten(last.k).kind # last.arg)
              => (last.ret.tag = "Err" /\ last.ret.val.err = "KeyMismatchError")
        /\ last.ret.tag = "Ok"
              => (written[last.k] # <<>> /\ LastWritten(last.k).kind = last.arg)

\* a get of a kind other than the stored one has failed with KeyMismatchError
C4_Witness ==
    /\ last.op = "get"
    /\ written[last.k] # <<>>
    /\ LastWritten(last.k).kind = "String"
    /\ last.arg = "Map"
    /\ last.ret.tag = "Err"
    /\ last.ret.val.err = "KeyMismatchError"

\* C5: get(k, K) on a key no earlier set call has used returns
\* Err(KeyNotFoundError), for every kind K, whatever was done on other keys.
C5_NeverSetIsNotFound ==
    (last.op = "get" /\ written[last.k] = <<>>) => last.ret = Err(KeyNotFoundError)

\* a get on a key never set has failed with KeyNotFoundError after sets on
\* the other key
C5_Witness ==
    /\ last.op = "get"
    /\ written[last.k] = <<>>
    /\ \E k \in Keys : Len(written[k]) = 2
    /\ last.ret = Err(KeyNotFoundError)

\* C6: after set(k, v1) then set(k, v2), get(k, v2.kind) returns Ok(v2), and
\* a get on k that returns Ok returns v2: v1 is not returned any more.
C6_LastWriteWins ==
    (last.op = "get" /\ Len(written[last.k]) = 2) =>
        /\ last.arg = LastWritten(last.k).kind => last.ret = Ok(LastWritten(last.k))
        /\ last.ret.tag = "Ok" => last.ret.val = LastWritten(last.k)

\* a get has returned v2 after v2 replaced a v1 of another kind and other data
C6_Witness ==
    /\ last.op = "get"
    /\ Len(written[last.k]) = 2
    /\ written[last.k][1].kind # written[last.k][2].kind
    /\ written[last.k][1].data # written[last.k][2].data
    /\ last.arg = written[last.k][2].kind
    /\ last.ret = Ok(written[last.k][2])

\* C8: set returns Ok(()) whatever the key, the value and the store: the key
\* absent, present with the same kind, or present with another kind.
C8_SetAlwaysOk ==
    last.op = "set" => last.ret = Ok(Unit)

\* a set has returned Ok(()) on a key that held a value of another kind
C8_Witness ==
    /\ last.op = "set"
    /\ Len(written[last.k]) = 2
    /\ written[last.k][1].kind # written[last.k][2].kind
    /\ last.ret = Ok(Unit)

\* whether the message m has the word w
Mentions(m, w) == \E i \in 1..Len(m) : m[i] = w

\* C9: the message of the KeyMismatchError of get(k, K2) on a key that holds
\* kind K1 states the key k, the expected kind K2 and the actual kind K1.
C9_MismatchMessageStatesKeyAndKinds ==
    (last.op = "get" /\ last.ret.tag = "Err" /\ last.ret.val.err = "KeyMismatchError")
        => /\ Mentions(last.ret.val.msg, last.k)
           /\ Mentions(last.ret.val.msg, KindDisplay(last.arg))
           /\ Mentions(last.ret.val.msg, KindDisplay(store[last.k].kind))

-----------------------------------------------------------------------------
(* The locked store's specification: threads call get and set on one       *)
(* store through the guards of one RwLock.                                 *)

InitLocked ==
    /\ InitStore
    /\ InitIdleDecoder
    /\ InitLock
    /\ InitIdleMock
    /\ InitIdleDisplay
    /\ InitIdlePair

AcquireRead(t) ==
    /\ pc[t] = "idle"
    /\ CanRead(lock)
    /\ lock' = [lock EXCEPT !.readers = @ \cup {t}]
    /\ pc' = [pc EXCEPT ![t] = "locked"]
    /\ UNCHANGED <<tret, committed, storeVars, decoderVars, sideVars>>

AcquireWrite(t) ==
    /\ pc[t] = "idle"
    /\ CanWrite(lock)
    /\ lock' = [lock EXCEPT !.writer = {t}]
    /\ pc' = [pc EXCEPT ![t] = "locked"]
    /\ UNCHANGED <<tret, committed, storeVars, decoderVars, sideVars>>

\* get is entered under either guard
GetCall(t, k, vk) ==
    /\ pc[t] = "locked"
    /\ pc' = [pc EXCEPT ![t] = "in_get"]
    /\ tret' = [tret EXCEPT ![t] = Call("get", k, vk, Pending)]
    /\ UNCHANGED <<lock, committed, storeVars, decoderVars, sideVars>>

\* get looks the key up and returns
GetReturn(t) ==
    /\ pc[t] = "in_get"
    /\ pc' = [pc EXCEPT ![t] = "done"]
    /\ tret' = [tret EXCEPT ![t].ret = StoreGet(store, tret[t].k, tret[t].arg)]
    /\ UNCHANGED <<lock, committed, storeVars, decoderVars, sideVars>>

\* set is entered under the write guard and inserts
SetCall(t, k, v) ==
    /\ pc[t] = "locked"
    /\ t \in lock.writer
    /\ pc' = [pc EXCEPT ![t] = "in_set"]
    /\ store' = StoreSet(store, k, v).store
    /\ tret' = [tret EXCEPT ![t] = Call("set", k, v, StoreSet(store, k, v).ret)]
    /\ UNCHANGED <<lock, committed, last, written, decoderVars, sideVars>>

\* set returns: its value is now the one a completed set wrote
SetReturn(t) ==
    /\ pc[t] = "in_set"
    /\ pc' = [pc EXCEPT ![t] = "done"]
    /\ committed' = Insert(committed, tret[t].k, tret[t].arg)
    /\ UNCHANGED <<lock, tret, storeVars, decoderVars, sideVars>>

\* the guard is dropped after the call
Release(t) ==
    /\ pc[t] = "done"
    /\ lock' = [readers |-> lock.readers \ {t}, writer |-> lock.writer \ {t}]
    /\ pc' = [pc EXCEPT ![t] = "idle"]
    /\ tret' = [tret EXCEPT ![t] = NoCall]
    /\ UNCHANGED <<committed, storeVars, decoderVars, sideVars>>

NextLocked ==
    \/ \E t \in Threads : AcquireRead(t)
    \/ \E t \in Threads : AcquireWrite(t)
    \/ \E t \in Threads, k \in Keys, vk \in Kinds : GetCall(t, k, vk)
    \/ \E t \in Threads : GetReturn(t)
    \/ \E t \in Threads, k \in Keys, v \in Values : SetCall(t, k, v)
    \/ \E t \in Threads : SetReturn(t)
    \/ \E t \in Threads : Release(t)

LockedSpec == InitLocked /\ [][NextLocked]_vars

-----------------------------------------------------------------------------
(* Claims about the locked store, checked under LockedSpec *)

\* C10: no set call is in progress together with another get or set call
\* (two get calls may be), so a get that returns Ok returns a value whose kind
\* and data one completed set wrote together.
C10_SetExcludesOtherCalls ==
    /\ \A t \in Threads : pc[t] = "in_set" =>
          \A u \in Threads \ {t} : pc[u] \notin {"in_get", "in_set"}
    /\ \A t \in Threads :
          (pc[t] = "done" /\ tret[t].op = "get" /\ tret[t].ret.tag = "Ok") =>
              /\ tret[t].k \in DOMAIN committed
              /\ tret[t].ret.val = committed[tret[t].k]

\* two get calls are in progress at the same time on a store that was set
C10_Witness ==
    /\ store # EmptyStore
    /\ \E t, u \in Threads : t # u /\ pc[t] = "in_get" /\ pc[u] = "in_get"

-----------------------------------------------------------------------------
(* The decoder's specification: a command is built from a frame            *)
(* (RedisCommand::new) and its methods are called on it.                   *)

InitDecoder ==
    /\ \/ \E ps \in PayloadLists : cmd = Encode(ps) /\ argv = Encoded(ps)
       \/ \E s \in RawFrames : cmd = s /\ argv = NotEncoded
    /\ called = "none"
    /\ ret = Ok(<<>>)
    /\ InitStore
    /\ InitLock
    /\ InitIdleMock
    /\ InitIdleDisplay
    /\ InitIdlePair

CallParams ==
    /\ called' = "params"
    /\ ret' = ParamsCall(cmd)
    /\ UNCHANGED <<cmd, argv, storeVars, lockVars, sideVars>>

CallName ==
    /\ called' = "name"
    /\ ret' = Name(cmd)
    /\ UNCHANGED <<cmd, argv, storeVars, lockVars, sideVars>>

NextDecoder ==
    \/ CallParams
    \/ CallName

DecoderSpec == InitDecoder /\ [][NextDecoder]_vars

-----------------------------------------------------------------------------
(* Claims about the decoder, checked under DecoderSpec *)

\* C1: for a well-formed frame *N\r\n($len\r\n<payload>\r\n){N} whose payloads
\* hold no "\r\n", params() returns exactly the N payloads, in frame order.
C1_ParamsDecodesPayloads ==
    (called = "params" /\ argv.wellformed) => ret = Ok(argv.payloads)

\* params() has returned two different payloads of one frame in their order,
\* the first one ending in a lone "\r", the second one a lone "\n"
C1_Witness ==
    /\ called = "params"
    /\ argv.wellformed
    /\ argv.payloads = << <<"S", CR>>, <<LF>> >>
    /\ cmd = <<"*", "2", CR, LF, "$", "2", CR, LF, "S", CR, CR, LF,
               "$", "1", CR, LF, LF, CR, LF>>
    /\ ret = Ok(<< <<"S", CR>>, <<LF>> >>)

\* C2: for a well-formed frame with N >= 1 arguments, name() returns the first
\* payload in lowercase, whatever the other arguments are.
C2_NameIsFirstLowercased ==
    (called = "name" /\ argv.wellformed /\ Len(argv.payloads) >= 1)
        => ret = Ok(ToLowercase(argv.payloads[1]))

\* name() has returned "set" for the frame of SET key "Hello World"
C2_Witness ==
    /\ called = "name"
    /\ argv = Encoded(TestArgs)
    /\ ret = Ok(<<"s", "e", "t">>)

\* the frames C7 is about: the empty one and those that carry no argument
ZeroArgumentFrame ==
    \/ cmd = <<>>
    \/ argv.wellformed /\ argv.payloads = <<>>

\* C7: params() and name() on the empty frame or on a frame without arguments
\* end in a typed decode error: no panic, and no successful decode.
C7_ZeroArgumentsIsDecodeError ==
    (called # "none" /\ ZeroArgumentFrame) => ret.tag = "DecodeError"

-----------------------------------------------------------------------------
(* Teststore, the mock backend, run beside RedisStore on the same calls *)

\* Teststore::set: nothing is stored; the err flag decides the result
TestSet(err, k, v) ==
    IF err THEN Err(KeyNotFoundError) ELSE Ok(Unit)

\* Teststore::get: todo!() panics
TestGet(err, k, vk) ==
    Panic

InitBackends ==
    /\ InitStore
    /\ terr \in BOOLEAN
    /\ tlast = NoCall
    /\ InitIdleDecoder
    /\ InitLock
    /\ InitIdleDisplay
    /\ InitIdlePair

BothSet(k, v) ==
    /\ store' = StoreSet(store, k, v).store
    /\ last' = Call("set", k, v, StoreSet(store, k, v).ret)
    /\ written' = [written EXCEPT ![k] = Written(@, v)]
    /\ tlast' = Call("set", k, v, TestSet(terr, k, v))
    /\ UNCHANGED <<terr, decoderVars, lockVars, displayVars, pairVars>>

BothGet(k, vk) ==
    /\ last' = Call("get", k, vk, StoreGet(store, k, vk))
    /\ tlast' = Call("get", k, vk, TestGet(terr, k, vk))
    /\ UNCHANGED <<store, written, terr, decoderVars, lockVars, displayVars, pairVars>>

NextBackends ==
    \/ \E k \in Keys, v \in Values : BothSet(k, v)
    \/ \E k \in Keys, vk \in Kinds : BothGet(k, vk)

BackendSpec == InitBackends /\ [][NextBackends]_vars

\* C11: every IStore backend, Teststore included, gives the outcome RedisStore
\* gives on the same sequence of calls: the same Ok or Err for a set, and for
\* a get Ok(v), KeyMismatch or KeyNotFound as RedisStore does, without aborting.
C11_BackendsAgree ==
    tlast.op # "none" => tlast.ret = last.ret

-----------------------------------------------------------------------------
(* impl Display for StoreError.  A text is the sequence of its words, the  *)
(* single spaces between them left out.                                    *)

DisplayWithoutPrefix(e) ==
    IF e = KeyNotFoundError THEN <<"-ERR", "key", "not", "found">> ELSE e.msg

\* write!(f, "-ERR key not found") and write!(f, "-ERR {:}", m)
Display(e) ==
    IF e = KeyNotFoundError THEN <<"-ERR", "key", "not", "found">>
    ELSE <<"-ERR">> \o e.msg

\* the words of generated messages
Words == {"key", "xxx", "-ERR"}

Messages == Strings(Words, MaxWords) \cup {MismatchMessage}

StoreErrors == {KeyNotFoundError} \cup {KeyMismatchError(m) : m \in Messages}

InitDisplay ==
    /\ error \in StoreErrors
    /\ shown = <<>>
    /\ InitStore
    /\ InitIdleDecoder
    /\ InitLock
    /\ InitIdleMock
    /\ InitIdlePair

\* format!("{}", error)
Render ==
    /\ shown' = Display(error)
    /\ UNCHANGED <<error, storeVars, decoderVars, lockVars, mockVars, pairVars>>

NextDisplay ==
    Render

DisplaySpec == InitDisplay /\ [][NextDisplay]_vars

\* C12: a rendered StoreError is "-ERR key not found" for KeyNotFoundError and
\* "-ERR " followed by the carried message, unchanged, for KeyMismatchError;
\* every rendered error starts with "-ERR ".
C12_RenderedError ==
    shown # <<>> =>
        /\ error = KeyNotFoundError => shown = <<"-ERR", "key", "not", "found">>
        /\ error.err = "KeyMismatchError" =>
              /\ Len(shown) = Len(error.msg) + 1
              /\ \A i \in 1..Len(error.msg) : shown[i + 1] = error.msg[i]
        /\ shown[1] = "-ERR"

\* the error of RedisStore::get has been rendered
C12_Witness ==
    /\ error = KeyMismatchError(MismatchMessage)
    /\ shown = <<"-ERR", "key", "xxx", "does", "not", "match", "yyy">>

-----------------------------------------------------------------------------
(* Claims about the segments params() keeps, checked under DecoderSpec *)

\* the segments of the frame after the first one
Remainder == Tail(Split(cmd))

\* the segments of rest at the even and at the odd indexes, counted from 0
EvenIndexed(rest) == [j \in 1..((Len(rest) + 1) \div 2) |-> rest[2 * j - 1]]
OddIndexed(rest) == [j \in 1..(Len(rest) \div 2) |-> rest[2 * j]]

\* C13 as stated: params() drops the first segment and, of the remaining ones
\* indexed from 0, discards the odd-indexed and returns the even-indexed.
C13_KeepsEvenIndexed ==
    called = "params" => ret = Ok(EvenIndexed(Remainder))

\* C13 as amended: params() drops the first segment and, of the remaining ones
\* indexed from 0, discards the even-indexed and returns the odd-indexed, in order.
C13_KeepsOddIndexed ==
    called = "params" => ret = Ok(OddIndexed(Remainder))

\* params() has returned segments 1, 3 and 5 of the seven that follow "*3"
C13_Witness ==
    /\ called = "params"
    /\ Len(Remainder) = 7
    /\ Remainder[1] = <<"$", "3">>
    /\ ret = Ok(<<Remainder[2], Remainder[4], Remainder[6]>>)

-----------------------------------------------------------------------------
(* Two frames that carry the same payloads under different header texts,   *)
(* decoded side by side.                                                   *)

\* header texts: empty, a length no payload has, and one that is no number
HeaderSamples == {<<>>, <<"$", "9">>, <<"x">>}

HeaderPayloads == {<<"S">>, <<"E", CR>>}

HeaderPayloadLists == UNION {[1..n -> HeaderPayloads] : n \in 0..MaxHeaderArgs}

\* the frame hs[1]\r\n(hs[i+1]\r\n ps[i]\r\n)* of the headers hs and payloads ps
FrameOf(hs, ps) ==
    hs[1] \o <<CR, LF>>
    \o Concat([i \in 1..Len(ps) |-> hs[i + 1] \o <<CR, LF>> \o ps[i] \o <<CR, LF>>])

InitHeaders ==
    /\ \E ps \in HeaderPayloadLists :
         \E hs1, hs2 \in [1..(Len(ps) + 1) -> HeaderSamples] :
            /\ cmd = FrameOf(hs1, ps)
            /\ cmd2 = FrameOf(hs2, ps)
            /\ argv = [wellformed |-> FALSE, payloads |-> ps]
    /\ called = "none"
    /\ ret = Ok(<<>>)
    /\ ret2 = Ok(<<>>)
    /\ InitStore
    /\ InitLock
    /\ InitIdleMock
    /\ InitIdleDisplay

ParamsOfBoth ==
    /\ called' = "params"
    /\ ret' = ParamsCall(cmd)
    /\ ret2' = ParamsCall(cmd2)
    /\ UNCHANGED <<cmd, cmd2, argv, storeVars, lockVars, mockVars, displayVars>>

NameOfBoth ==
    /\ called' = "name"
    /\ ret' = Name(cmd)
    /\ ret2' = Name(cmd2)
    /\ UNCHANGED <<cmd, cmd2, argv, storeVars, lockVars, mockVars, displayVars>>

NextHeaders ==
    \/ ParamsOfBoth
    \/ NameOfBoth

HeaderSpec == InitHeaders /\ [][NextHeaders]_vars

\* C14: two frames with the same number of segments and the same payload
\* segments, whatever delimiter-free text their count header and their length
\* headers hold, give the same params() and the same name().
C14_HeadersAreIgnored ==
    called # "none" => ret = ret2

\* name() has returned the same name for two frames whose headers all differ,
\* none of them the length of its payload
C14_Witness ==
    /\ called = "name"
    /\ cmd = <<"x", CR, LF, CR, LF, "E", CR, CR, LF, "$", "9", CR, LF, "S", CR, LF>>
    /\ cmd2 = <<CR, LF, "$", "9", CR, LF, "E", CR, CR, LF, "x", CR, LF, "S", CR, LF>>
    /\ ret = Ok(<<"e", CR>>)
    /\ ret2 = ret

-----------------------------------------------------------------------------
(* Frames whose payloads hold "\r\n" inside their declared length *)

\* payloads with no, one and two embedded delimiters
EmbedPayloads ==
    {<<"S">>, <<"k">>, <<"E", CR, LF, "T">>, <<"H", CR, LF, CR, LF>>}

EmbedPayloadLists == UNION {[1..n -> EmbedPayloads] : n \in 0..MaxEmbedArgs}

InitEmbedded ==
    /\ \E ps \in EmbedPayloadLists :
          /\ cmd = Encode(ps)
          /\ argv = [wellformed |-> FALSE, payloads |-> ps]
    /\ called = "none"
    /\ ret = Ok(<<>>)
    /\ InitStore
    /\ InitLock
    /\ InitIdleMock
    /\ InitIdleDisplay
    /\ InitIdlePair

EmbeddedSpec == InitEmbedded /\ [][NextDecoder]_vars

\* the length header of payload p, and the number of delimiters inside p
HeaderOf(p) == <<"$">> \o Decimal(Len(p))
Delimiters(p) == Len(Split(p)) - 1

RECURSIVE DelimitersBefore(_, _)
\* the number of delimiters inside the payloads of ps before the j-th
DelimitersBefore(ps, j) ==
    IF j <= 1 THEN 0 ELSE DelimitersBefore(ps, j - 1) + Delimiters(ps[j - 1])

\* the frame has a payload with an embedded delimiter and params() was called
EmbeddedCase ==
    /\ called = "params"
    /\ \E i \in 1..Len(argv.payloads) : HasDelimiter(argv.payloads[i])

\* C15 as stated: a payload with an embedded "\r\n" is not returned as one
\* argument, and every argument after it is mis-segmented: its length header
\* is returned in the place of a payload.
C15_FollowingAllMisSegmented ==
    EmbeddedCase =>
        \A i, j \in 1..Len(argv.payloads) :
            (i < j /\ HasDelimiter(argv.payloads[i])) =>
                /\ ~Mentions(ret.val, argv.payloads[i])
                /\ Mentions(ret.val, HeaderOf(argv.payloads[j]))

\* C15 as amended: no returned argument holds "\r\n", so such a payload is
\* never returned whole; it is cut at each embedded delimiter.  An argument
\* with an odd number of delimiters embedded before it is returned as its
\* length header; one with an even number is returned as its payload, cut at
\* its own first delimiter.
C15_MisSegmentedByParity ==
    EmbeddedCase =>
        /\ ret.tag = "Ok"
        /\ \A x \in 1..Len(ret.val) : ~HasDelimiter(ret.val[x])
        /\ \A j \in 1..Len(argv.payloads) :
              LET n == DelimitersBefore(argv.payloads, j)
              IN  IF n % 2 = 0
                    THEN /\ j + (n \div 2) <= Len(ret.val)
                         /\ ret.val[j + (n \div 2)] = Split(argv.payloads[j])[1]
                    ELSE /\ j + ((n - 1) \div 2) <= Len(ret.val)
                         /\ ret.val[j + ((n - 1) \div 2)] = HeaderOf(argv.payloads[j])

\* params() has cut E\r\nT at its delimiter and returned the header of the
\* argument after it
C15_Witness ==
    /\ called = "params"
    /\ argv.payloads = << <<"E", CR, LF, "T">>, <<"S">> >>
    /\ ret = Ok(<< <<"E">>, <<"$", "1">>, <<>> >>)

-----------------------------------------------------------------------------
(* Claims about what the calls on RedisStore leave alone, checked under Spec *)

\* C16: a get call, whether it returns Ok, KeyNotFoundError or
\* KeyMismatchError, leaves the whole map as it was: no key is added, removed
\* or rewritten.
C16_GetLeavesStore ==
    [][last'.op = "get" => store' = store]_vars

\* a value a get has returned is still stored under its key, beside the
\* other key
C16_Witness ==
    /\ last.op = "get"
    /\ last.ret.tag = "Ok"
    /\ DOMAIN store = Keys
    /\ store[last.k] = last.ret.val
    /\ \E k \in Keys : k # last.k /\ store[k] # store[last.k]

\* C17: set(k, v) changes the entry of k alone: every other key is present or
\* absent as before, with the kind and data it had, and get on it returns
\* what it returned before, for every kind.
C17_SetLeavesOtherKeys ==
    [][last'.op = "set" =>
         \A k \in Keys \ {last'.k} :
            /\ (k \in DOMAIN store') = (k \in DOMAIN store)
            /\ k \in DOMAIN store => store'[k] = store[k]
            /\ \A vk \in Kinds : StoreGet(store', k, vk) = StoreGet(store, k, vk)]_vars

\* a set has been made on one key while the other holds the value last
\* written to it
C17_Witness ==
    /\ last.op = "set"
    /\ last.ret = Ok(Unit)
    /\ store[last.k] = last.arg
    /\ \E k \in Keys \ {last.k} :
          /\ k \in DOMAIN store
          /\ store[k] = LastWritten(k)
          /\ store[k] # last.arg

-----------------------------------------------------------------------------
(* Claims about the aborts of the decoder, checked under DecoderSpec *)

\* C18: params() returns a list for every input string, the empty one, one
\* without a delimiter, one with an even or an odd number of segments, with or
\* without the final "\r\n": its slice is always in bounds.  The only abort
\* of the decoder is the index [0] of name(), when params() is empty.
C18_ParamsIsTotal ==
    /\ called = "params" => ret.tag = "Ok"
    /\ called = "name" =>
          /\ ret.tag \in {"Ok", "Panic"}
          /\ ret.tag = "Panic" => ret = Panic
          /\ (ret.tag = "Panic") = (OddIndexed(Remainder) = <<>>)

\* params() has returned the empty list for the empty string
C18_Witness ==
    /\ called = "params"
    /\ cmd = <<>>
    /\ ret = Ok(<<>>)

====
